---- MODULE Spec2Model ----
(***************************************************************************)
(* Vehicle parking system: the slot registry (sampleSlots, main.js) and    *)
(* the callbacks of the admin screen (admin.js) and the operator screen    *)
(* (operator.js) that read and change it.                                  *)
(*                                                                         *)
(* Strings that the code trims and uppercases are sequences of one-letter  *)
(* strings, so that trim() and toUpperCase() are computed and not assumed. *)
(* A slot is a record whose vehicleNumber, vehicleType and entryTime       *)
(* fields exist only while the code has assigned them: the code deletes    *)
(* them when the slot is freed. Times are milliseconds since page load;    *)
(* money is in cents (2.50 is 250).                                        *)
(*                                                                         *)
(* Of the page, the model keeps what a callback reads back or what tells   *)
(* its outcome: the exit-number input, the fee panel (whose vehicle and    *)
(* total it shows, or that it is hidden) and the alert. The slot grids,    *)
(* the vehicles table, the park-confirm panel and the entry-time and       *)
(* duration lines of the fee panel are rendered from the registry and read *)
(* by no callback. #exit-vehicle-number is taken to be a field of          *)
(* #removal-form, so that the form's reset() empties it.                   *)
(***************************************************************************)
EXTENDS Integers, Sequences, FiniteSets

VARIABLES
    sampleSlots,        \* main.js: the shared slot array, in insertion order
    now,                \* what new Date() returns when a callback reads it
    exitVehicleNumber,  \* the text in the #exit-vehicle-number input
    feeDisplay,         \* the #fee-display panel: hidden, or the quote shown
    alert               \* what the last callback passed to showAlert

vars == <<sampleSlots, now, exitVehicleNumber, feeDisplay, alert>>

----------------------------------------------------------------------------
(* Program constants *)

MsPerHour == 3600000

MsPerMinute == 60000

parkingRates == [car |-> 250, motorcycle |-> 150, truck |-> 400]

----------------------------------------------------------------------------
(* Bounds of the model and the inputs drawn *)

\* SpecFee reads the clock at the whole hours 0..MaxHour, and 1 ms and
\* 1 minute after each.
MaxHour == 2

TimePoints ==
    {h * MsPerHour + o : h \in 0..MaxHour, o \in {0, 1, MsPerMinute}}

\* Spec reads the clock at the whole hours 0..MaxSpecHour.
MaxSpecHour == 1

HourPoints == {h * MsPerHour : h \in 0..MaxSpecHour}

EmptyString == <<>>

\* What the operator types as a vehicle number in the parking form.
VehicleNumberInputs ==
    { <<"a", "b", "c", "1", "2", "3">>,
      <<" ", "x", "y", "9", " ">>,
      <<" ">> }

\* What the operator types as a vehicle number in the removal form (a reset
\* form holds the empty string).
ExitNumberInputs ==
    { <<"a", "b", "c", "1", "2", "3">>,
      <<" ", "x", "y", "9", " ">> }

\* The options of the #vehicle-type select; "" is the placeholder.
VehicleTypeInputs == {"", "car", "motorcycle", "truck"}

\* The one vehicle number of SpecFee.
FeeNumberInputs == { <<"a", "b", "c", "1", "2", "3">> }

\* The vehicle types chosen under Spec (SpecFee chooses among all).
SpecTypeInputs == {"", "car", "truck"}

\* What the admin types as a slot id before pressing Add.
AddSlotInputs == { <<" ", "a", "1", " ">>, <<" ">> }

\* What the admin types as a slot id before pressing Remove.
RemoveSlotInputs ==
    { <<"a", "1", " ">>, <<"A", "2">>, <<"b", "1">>, EmptyString }

----------------------------------------------------------------------------
(* String.prototype.trim and toUpperCase *)

IsWhitespace(c) == c = " "

RECURSIVE trimStart(_)
trimStart(s) ==
    IF s # <<>> /\ IsWhitespace(Head(s)) THEN trimStart(Tail(s)) ELSE s

RECURSIVE trimEnd(_)
trimEnd(s) ==
    IF s # <<>> /\ IsWhitespace(s[Len(s)])
    THEN trimEnd(SubSeq(s, 1, Len(s) - 1))
    ELSE s

trim(s) == trimEnd(trimStart(s))

UpperChar(c) ==
    CASE c = "a" -> "A"
      [] c = "b" -> "B"
      [] c = "c" -> "C"
      [] c = "x" -> "X"
      [] c = "y" -> "Y"
      [] c = "z" -> "Z"
      [] OTHER -> c

toUpperCase(s) == [i \in 1..Len(s) |-> UpperChar(s[i])]

\* Mutant of Clean: the text is trimmed and not uppercased.
Clean_NoUpperCase(raw) == trim(raw)

\* value.trim().toUpperCase(), as every callback cleans its text input
Clean(raw) == toUpperCase(trim(raw))

----------------------------------------------------------------------------
(* Objects and arrays *)

SetProp(obj, key, value) ==
    [k \in DOMAIN obj \cup {key} |-> IF k = key THEN value ELSE obj[k]]

DeleteProp(obj, key) == [k \in DOMAIN obj \ {key} |-> obj[k]]

\* Array.prototype.findIndex and find, given what the callback answers for
\* each element in turn: the first index answered TRUE. Indices are 1-based
\* and 0 stands for JavaScript's -1 (and for find's undefined).
findIndex(answers) ==
    IF \E i \in 1..Len(answers) : answers[i]
    THEN CHOOSE i \in 1..Len(answers) :
            answers[i] /\ \A j \in 1..(i - 1) : ~answers[j]
    ELSE 0

\* Array.prototype.splice(index, 1)
splice(arr, index) ==
    [i \in 1..(Len(arr) - 1) |-> IF i < index THEN arr[i] ELSE arr[i + 1]]

\* Array.prototype.push
push(arr, item) == Append(arr, item)

----------------------------------------------------------------------------
(* main.js: the registry as the page loads it *)

A1 == <<"A", "1">>
A2 == <<"A", "2">>
B1 == <<"B", "1">>
B2 == <<"B", "2">>
ABC123 == <<"A", "B", "C", "1", "2", "3">>

InitialSlots(loadTime) ==
    << [id |-> A1, status |-> "available"],
       [id |-> A2, status |-> "available"],
       [id |-> B1, status |-> "occupied", vehicleNumber |-> ABC123,
        vehicleType |-> "car", entryTime |-> loadTime],
       [id |-> B2, status |-> "available"] >>

\* showAlert(message, type): the message and its type; NoAlert when the
\* callback raised none.
NoAlert == [type |-> "none", message |-> ""]

showAlert(message, type) == [type |-> type, message |-> message]

\* The #fee-display panel while it carries the class "hidden".
Hidden == [hidden |-> TRUE]

Init ==
    /\ now = 0
    /\ sampleSlots = InitialSlots(0)
    /\ exitVehicleNumber = EmptyString
    /\ feeDisplay = Hidden
    /\ alert = NoAlert

----------------------------------------------------------------------------
(* admin.js *)

\* slot => slot.id === slotId
HasId(slot, slotId) == slot.id = slotId

\* sampleSlots.some(slot => slot.id === slotId)
SlotExists(slots, slotId) == \E i \in 1..Len(slots) : HasId(slots[i], slotId)

\* sampleSlots.findIndex(slot => slot.id === slotId)
FindSlot(slots, slotId) ==
    findIndex([i \in 1..Len(slots) |-> HasId(slots[i], slotId)])

\* the object pushed by addParkingSlot
NewSlot(slotId) == [id |-> slotId, status |-> "available"]

addParkingSlot(rawId) ==
    LET slotId == Clean(rawId) IN
    /\ IF slotId = EmptyString
       THEN /\ alert' = showAlert("Please enter a slot ID", "error")
            /\ UNCHANGED sampleSlots
       ELSE IF SlotExists(sampleSlots, slotId)
       THEN /\ alert' = showAlert("Slot already exists", "error")
            /\ UNCHANGED sampleSlots
       ELSE /\ sampleSlots' = push(sampleSlots, NewSlot(slotId))
            /\ alert' = showAlert("Slot added successfully", "success")
    /\ UNCHANGED <<now, exitVehicleNumber, feeDisplay>>

\* sampleSlots[slotIndex].status === 'occupied'
IsOccupied(slot) == slot.status = "occupied"

\* Mutant of removeParkingSlot: the slot is spliced out before the check
\* that it is occupied.
removeParkingSlot_SpliceFirst(rawId) ==
    LET slotId == Clean(rawId)
        slotIndex == FindSlot(sampleSlots, slotId)
    IN
    /\ IF slotId = EmptyString
       THEN /\ alert' = showAlert("Please enter a slot ID", "error")
            /\ UNCHANGED sampleSlots
       ELSE IF slotIndex = 0
       THEN /\ alert' = showAlert("Slot not found", "error")
            /\ UNCHANGED sampleSlots
       ELSE /\ sampleSlots' = splice(sampleSlots, slotIndex)
            /\ alert' = IF IsOccupied(sampleSlots[slotIndex])
                        THEN showAlert("Cannot remove an occupied slot", "error")
                        ELSE showAlert("Slot removed successfully", "success")
    /\ UNCHANGED <<now, exitVehicleNumber, feeDisplay>>

removeParkingSlot(rawId) ==
    LET slotId == Clean(rawId)
        slotIndex == FindSlot(sampleSlots, slotId)
    IN
    /\ IF slotId = EmptyString
       THEN /\ alert' = showAlert("Please enter a slot ID", "error")
            /\ UNCHANGED sampleSlots
       ELSE IF slotIndex = 0
       THEN /\ alert' = showAlert("Slot not found", "error")
            /\ UNCHANGED sampleSlots
       ELSE IF IsOccupied(sampleSlots[slotIndex])
       THEN /\ alert' = showAlert("Cannot remove an occupied slot", "error")
            /\ UNCHANGED sampleSlots
       ELSE /\ sampleSlots' = splice(sampleSlots, slotIndex)
            /\ alert' = showAlert("Slot removed successfully", "success")
    /\ UNCHANGED <<now, exitVehicleNumber, feeDisplay>>

----------------------------------------------------------------------------
(* operator.js *)

\* slot => slot.status === 'occupied' && slot.vehicleNumber === vehicleNumber
\* (a slot without the property has vehicleNumber undefined, equal to no text)
HoldsVehicle(slot, vehicleNumber) ==
    /\ slot.status = "occupied"
    /\ "vehicleNumber" \in DOMAIN slot
    /\ slot.vehicleNumber = vehicleNumber

\* Mutant of AlreadyParked: the check looks at the available slots.
AlreadyParked_WrongStatus(slots, vehicleNumber) ==
    \E i \in 1..Len(slots) :
        /\ slots[i].status = "available"
        /\ "vehicleNumber" \in DOMAIN slots[i]
        /\ slots[i].vehicleNumber = vehicleNumber

\* sampleSlots.some(slot => occupied by vehicleNumber)
AlreadyParked(slots, vehicleNumber) ==
    \E i \in 1..Len(slots) : HoldsVehicle(slots[i], vehicleNumber)

\* slot => slot.status === 'available'
IsAvailable(slot) == slot.status = "available"

\* Mutant of FindAvailable: the last available slot, not the first.
FindAvailable_Last(slots) ==
    IF \E i \in 1..Len(slots) : IsAvailable(slots[i])
    THEN CHOOSE i \in 1..Len(slots) :
            IsAvailable(slots[i]) /\ \A j \in (i + 1)..Len(slots) : ~IsAvailable(slots[j])
    ELSE 0

\* sampleSlots.find(slot => slot.status === 'available'), as an index
FindAvailable(slots) ==
    findIndex([i \in 1..Len(slots) |-> IsAvailable(slots[i])])

\* the four assignments that park a vehicle in availableSlot
ParkIn(slot, vehicleNumber, vehicleType, entryTime) ==
    SetProp(SetProp(SetProp(SetProp(slot,
        "status", "occupied"),
        "vehicleNumber", vehicleNumber),
        "vehicleType", vehicleType),
        "entryTime", entryTime)

handleParking(rawNumber, vehicleType) ==
    LET vehicleNumber == Clean(rawNumber)
        availableSlot == FindAvailable(sampleSlots)
    IN
    /\ IF vehicleNumber = EmptyString \/ vehicleType = ""
       THEN /\ alert' = showAlert("Please fill in all fields", "error")
            /\ UNCHANGED sampleSlots
       ELSE IF AlreadyParked(sampleSlots, vehicleNumber)
       THEN /\ alert' = showAlert("This vehicle is already parked", "error")
            /\ UNCHANGED sampleSlots
       ELSE IF availableSlot = 0
       THEN /\ alert' = showAlert("No available parking slots", "error")
            /\ UNCHANGED sampleSlots
       ELSE /\ sampleSlots' =
                  [sampleSlots EXCEPT ![availableSlot] =
                      ParkIn(@, vehicleNumber, vehicleType, now)]
            /\ alert' = NoAlert
    /\ UNCHANGED <<now, exitVehicleNumber, feeDisplay>>

\* Mutant of FindVehicle: the first occupied slot, whatever vehicle it holds.
FindVehicle_AnyVehicle(slots, vehicleNumber) ==
    findIndex([i \in 1..Len(slots) |-> IsOccupied(slots[i])])

\* sampleSlots.find / findIndex(slot => occupied by vehicleNumber)
FindVehicle(slots, vehicleNumber) ==
    findIndex([i \in 1..Len(slots) |-> HoldsVehicle(slots[i], vehicleNumber)])

\* Mutant of MathCeil: Math.floor.
MathCeil_Floor(numerator, denominator) == numerator \div denominator

\* Math.ceil(numerator / denominator), denominator > 0
MathCeil(numerator, denominator) == -((-numerator) \div denominator)

\* durationHours, rate and fee of handleRemoval
Fee(entryTime, exitTime, vehicleType) ==
    MathCeil(exitTime - entryTime, MsPerHour) * parkingRates[vehicleType]

\* The panel after handleRemoval filled it in and removed the class "hidden".
Quote(vehicleNumber, fee) ==
    [hidden |-> FALSE, vehicle |-> vehicleNumber, total |-> fee]

\* Mutant of handleRemoval: the slot is freed as soon as the fee is quoted.
handleRemoval_FreesAtQuote ==
    LET vehicleNumber == Clean(exitVehicleNumber)
        vehicleSlot == FindVehicle(sampleSlots, vehicleNumber)
    IN
    /\ IF vehicleNumber = EmptyString
       THEN /\ alert' = showAlert("Please enter a vehicle number", "error")
            /\ UNCHANGED <<feeDisplay, sampleSlots>>
       ELSE IF vehicleSlot = 0
       THEN /\ alert' = showAlert("Vehicle not found in parking", "error")
            /\ UNCHANGED <<feeDisplay, sampleSlots>>
       ELSE /\ feeDisplay' =
                  Quote(vehicleNumber,
                        Fee(sampleSlots[vehicleSlot].entryTime, now,
                            sampleSlots[vehicleSlot].vehicleType))
            /\ sampleSlots' =
                  [sampleSlots EXCEPT ![vehicleSlot] =
                      [id |-> @.id, status |-> "available"]]
            /\ alert' = NoAlert
    /\ UNCHANGED <<now, exitVehicleNumber>>

handleRemoval ==
    LET vehicleNumber == Clean(exitVehicleNumber)
        vehicleSlot == FindVehicle(sampleSlots, vehicleNumber)
    IN
    /\ IF vehicleNumber = EmptyString
       THEN /\ alert' = showAlert("Please enter a vehicle number", "error")
            /\ UNCHANGED feeDisplay
       ELSE IF vehicleSlot = 0
       THEN /\ alert' = showAlert("Vehicle not found in parking", "error")
            /\ UNCHANGED feeDisplay
       ELSE /\ feeDisplay' =
                  Quote(vehicleNumber,
                        Fee(sampleSlots[vehicleSlot].entryTime, now,
                            sampleSlots[vehicleSlot].vehicleType))
            /\ alert' = NoAlert
    /\ UNCHANGED <<sampleSlots, now, exitVehicleNumber>>

\* Mutant of FreeSlot: entryTime is not deleted.
FreeSlot_KeepsEntryTime(slot) ==
    DeleteProp(DeleteProp(SetProp(slot,
        "status", "available"),
        "vehicleNumber"),
        "vehicleType")

\* status = 'available' and the three deletes of confirmPayment
FreeSlot(slot) ==
    DeleteProp(DeleteProp(DeleteProp(SetProp(slot,
        "status", "available"),
        "vehicleNumber"),
        "vehicleType"),
        "entryTime")

\* The registry after confirmPayment read vehicleNumber from the input.
Confirmed(slots, vehicleNumber) ==
    LET slotIndex == FindVehicle(slots, vehicleNumber) IN
    IF slotIndex # 0
    THEN [slots EXCEPT ![slotIndex] = FreeSlot(@)]
    ELSE slots

confirmPayment ==
    LET vehicleNumber == Clean(exitVehicleNumber)
        slotIndex == FindVehicle(sampleSlots, vehicleNumber)
    IN
    /\ sampleSlots' = Confirmed(sampleSlots, vehicleNumber)
    /\ IF slotIndex # 0
       THEN /\ exitVehicleNumber' = EmptyString
            /\ feeDisplay' = Hidden
            /\ alert' = showAlert("Vehicle has exited. Thank you!", "success")
       ELSE /\ alert' = NoAlert
            /\ UNCHANGED <<exitVehicleNumber, feeDisplay>>
    /\ UNCHANGED now

cancelRemoval ==
    /\ exitVehicleNumber' = EmptyString
    /\ feeDisplay' = Hidden
    /\ alert' = NoAlert
    /\ UNCHANGED <<sampleSlots, now>>

----------------------------------------------------------------------------
(* The environment: the operator's keyboard and the host clock *)

\* The operator replaces the text of the #exit-vehicle-number input.
TypeExitVehicleNumber(raw) ==
    /\ raw # exitVehicleNumber
    /\ exitVehicleNumber' = raw
    /\ UNCHANGED <<sampleSlots, now, feeDisplay, alert>>

\* Time passes between two callbacks.
Tick(t) ==
    /\ t > now
    /\ now' = t
    /\ UNCHANGED <<sampleSlots, exitVehicleNumber, feeDisplay, alert>>

\* The host's wall clock is set back (new Date() is not monotonic).
ClockSetBack(t) ==
    /\ t < now
    /\ now' = t
    /\ UNCHANGED <<sampleSlots, exitVehicleNumber, feeDisplay, alert>>

\* Both screens over the shared registry, the clock advancing by whole
\* hours.
Next ==
    \/ \E rawId \in AddSlotInputs : addParkingSlot(rawId)
    \/ \E rawId \in RemoveSlotInputs : removeParkingSlot(rawId)
    \/ \E rawNumber \in VehicleNumberInputs, vehicleType \in SpecTypeInputs :
          handleParking(rawNumber, vehicleType)
    \/ handleRemoval
    \/ confirmPayment
    \/ cancelRemoval
    \/ \E raw \in ExitNumberInputs : TypeExitVehicleNumber(raw)
    \/ \E t \in HourPoints : Tick(t)

Spec == Init /\ [][Next]_vars

\* The operator screen alone, one vehicle number, every vehicle type, the
\* clock read at TimePoints and set back: the stays that the fee is
\* computed from.
NextFee ==
    \/ \E rawNumber \in FeeNumberInputs, vehicleType \in VehicleTypeInputs :
          handleParking(rawNumber, vehicleType)
    \/ handleRemoval
    \/ confirmPayment
    \/ cancelRemoval
    \/ \E raw \in FeeNumberInputs : TypeExitVehicleNumber(raw)
    \/ \E t \in TimePoints : Tick(t)
    \/ \E t \in TimePoints : ClockSetBack(t)

SpecFee == Init /\ [][NextFee]_vars

----------------------------------------------------------------------------
(* The claims *)

XY9 == <<"X", "Y", "9">>

VehicleFields == {"vehicleNumber", "vehicleType", "entryTime"}

Indices(slots) == 1..Len(slots)

\* C1: no vehicleNumber is held by more than one occupied slot.
C1_VehicleInAtMostOneSlot ==
    \A i, j \in Indices(sampleSlots) :
        ( /\ i # j
          /\ sampleSlots[i].status = "occupied"
          /\ sampleSlots[j].status = "occupied" )
        => sampleSlots[i].vehicleNumber # sampleSlots[j].vehicleNumber

\* Two vehicles are parked and a second admission of one of them was refused.
C1_Witness ==
    /\ alert.message = "This vehicle is already parked"
    /\ \E i, j \in Indices(sampleSlots) :
          /\ sampleSlots[i].status = "occupied"
          /\ sampleSlots[j].status = "occupied"
          /\ sampleSlots[i].vehicleNumber = ABC123
          /\ sampleSlots[j].vehicleNumber = XY9

\* C2: a slot is occupied or available; an occupied slot has a non-empty
\* vehicleNumber and vehicleType and an entryTime, an available slot has none
\* of the three.
C2_VehicleFieldsFollowStatus ==
    \A i \in Indices(sampleSlots) :
        LET slot == sampleSlots[i] IN
        /\ slot.status \in {"occupied", "available"}
        /\ slot.status = "occupied" =>
              /\ VehicleFields \subseteq DOMAIN slot
              /\ slot.vehicleNumber # EmptyString
              /\ slot.vehicleType # ""
              /\ slot.entryTime \in Int
        /\ slot.status = "available" => VehicleFields \cap DOMAIN slot = {}

\* B1 was freed by a confirmed release and another slot was taken since.
C2_Witness ==
    \E i, j \in Indices(sampleSlots) :
        /\ sampleSlots[i].id = B1
        /\ sampleSlots[i].status = "available"
        /\ sampleSlots[j].status = "occupied"
        /\ sampleSlots[j].vehicleNumber = XY9

\* Two ids that differ at most by case and surrounding whitespace.
SameSlotId(a, b) == toUpperCase(trim(a)) = toUpperCase(trim(b))

\* C5: no two slots have the same id, nor ids that differ only by case or
\* surrounding whitespace.
C5_SlotIdsUnique ==
    \A i, j \in Indices(sampleSlots) :
        i # j => ~SameSlotId(sampleSlots[i].id, sampleSlots[j].id)

\* Adding " a1 " while A1 exists was refused.
C5_Witness ==
    /\ alert.message = "Slot already exists"
    /\ \E i \in Indices(sampleSlots) : sampleSlots[i].id = A1

\* The exit numbers confirmPayment may read: those typed, the empty string of
\* a reset form, and a blank.
ConfirmInputs == ExitNumberInputs \cup {EmptyString, <<" ">>}

\* C8: confirming twice for the same vehicle number leaves the registry as
\* confirming once does, and confirming for a number that no occupied slot
\* holds leaves the registry as it is.
C8_ConfirmIdempotent ==
    \A raw \in ConfirmInputs :
        LET vehicleNumber == Clean(raw)
            once == Confirmed(sampleSlots, vehicleNumber)
        IN
        /\ Confirmed(once, vehicleNumber) = once
        /\ (\A i \in Indices(sampleSlots) :
                sampleSlots[i].status = "occupied"
                => sampleSlots[i].vehicleNumber # vehicleNumber)
           => once = sampleSlots

\* A release was confirmed while another vehicle stays parked.
C8_Witness ==
    /\ alert.message = "Vehicle has exited. Thank you!"
    /\ \E i \in Indices(sampleSlots) : sampleSlots[i].status = "occupied"

\* The quote on display is for the vehicle with this number.
QuotePending(vehicleNumber) ==
    ~feeDisplay.hidden /\ feeDisplay.vehicle = vehicleNumber

\* C3: a slot goes from occupied to available only in a confirmPayment step
\* taken while the fee quote on display is for the vehicle in that slot.
C3_FreedOnlyAfterQuote ==
    [][\A i \in Indices(sampleSlots) :
          ( /\ sampleSlots[i].status = "occupied"
            /\ i \in Indices(sampleSlots')
            /\ sampleSlots'[i].id = sampleSlots[i].id
            /\ sampleSlots'[i].status = "available" )
          => /\ confirmPayment
             /\ QuotePending(sampleSlots[i].vehicleNumber)]_vars

\* C4: in a step that turns an available slot into an occupied one, no
\* available slot precedes it in the registry and every other slot is as
\* before.
C4_AdmitTakesFirstAvailable ==
    [][\A i \in Indices(sampleSlots) :
          ( /\ Len(sampleSlots') = Len(sampleSlots)
            /\ sampleSlots[i].status = "available"
            /\ sampleSlots'[i].status = "occupied" )
          => /\ sampleSlots'[i].id = sampleSlots[i].id
             /\ \A j \in 1..(i - 1) : sampleSlots[j].status # "available"
             /\ \A k \in Indices(sampleSlots) \ {i} :
                    sampleSlots'[k] = sampleSlots[k]]_vars

\* A1 was removed and added again, so it is last in insertion order and
\* first by id; the vehicle admitted since went to A2, and A1 is still free.
C4_Witness ==
    /\ Len(sampleSlots) >= 2
    /\ sampleSlots[Len(sampleSlots)].id = A1
    /\ sampleSlots[Len(sampleSlots)].status = "available"
    /\ sampleSlots[1].id = A2
    /\ sampleSlots[1].status = "occupied"
    /\ sampleSlots[1].vehicleNumber = XY9

\* C6: a callback that ends with an error alert leaves the registry as it
\* was, and a slot leaves the registry only while it is available.
C6_FailedCallChangesNothing ==
    [][ /\ alert'.type = "error" => sampleSlots' = sampleSlots
        /\ \A i \in Indices(sampleSlots) :
              (\A j \in Indices(sampleSlots') :
                    sampleSlots'[j].id # sampleSlots[i].id)
              => sampleSlots[i].status = "available" ]_vars

\* Every slot is taken and the admission of one more vehicle was refused.
C6_Witness ==
    /\ alert.message = "No available parking slots"
    /\ \A i \in Indices(sampleSlots) : sampleSlots[i].status = "occupied"

\* The slot that holds the vehicle, or <<>> when no slot does.
Holder(slots, vehicleNumber) ==
    IF \E i \in Indices(slots) :
          slots[i].status = "occupied" /\ slots[i].vehicleNumber = vehicleNumber
    THEN LET i == CHOOSE i \in Indices(slots) :
                    /\ slots[i].status = "occupied"
                    /\ slots[i].vehicleNumber = vehicleNumber
         IN  <<slots[i]>>
    ELSE <<>>

\* C7: a handleRemoval step and a cancelRemoval step leave the registry as
\* it was, and while a quote is on display the slot of the quoted vehicle
\* changes in no step but a confirmPayment.
C7_QuoteAndCancelChangeNothing ==
    [][ /\ (handleRemoval \/ cancelRemoval) => sampleSlots' = sampleSlots
        /\ \A vehicleNumber \in {ABC123, XY9} :
              ( /\ QuotePending(vehicleNumber)
                /\ Holder(sampleSlots', vehicleNumber)
                      # Holder(sampleSlots, vehicleNumber) )
              => confirmPayment ]_vars

\* The fee of a vehicle admitted by handleParking is on display and its slot
\* is as handleParking left it.
C7_Witness ==
    /\ QuotePending(XY9)
    /\ Holder(sampleSlots, XY9) # <<>>
    /\ Holder(sampleSlots, XY9)[1].entryTime = MsPerHour

\* The least number of whole hours that covers a stay of d >= 0 ms.
HoursBilled(d) ==
    CHOOSE n \in 0..(d \div MsPerHour + 1) :
        n * MsPerHour >= d /\ (n - 1) * MsPerHour < d

\* The hourly rates of the three vehicle types, in cents.
HourlyRate(vehicleType) ==
    CASE vehicleType = "car" -> 250
      [] vehicleType = "motorcycle" -> 150
      [] vehicleType = "truck" -> 400

\* C9: the fee that handleRemoval quotes for a stay of d >= 0 ms is the
\* ceiling of d / 3,600,000 times the hourly rate of the vehicle's type: 0 for
\* d = 0, one hour's rate for 0 < d <= 60 minutes, 5.00 for a car's 61 minutes.
C9_FeeIsCeilingTimesRate ==
    [][(handleRemoval /\ alert' = NoAlert) =>
          LET slot == Holder(sampleSlots, feeDisplay'.vehicle)[1]
              d == now - slot.entryTime
              rate == HourlyRate(slot.vehicleType)
          IN  d >= 0 =>
                /\ feeDisplay'.total = HoursBilled(d) * rate
                /\ d = 0 => feeDisplay'.total = 0
                /\ (0 < d /\ d <= 60 * MsPerMinute) => feeDisplay'.total = rate
                /\ (d = 61 * MsPerMinute /\ slot.vehicleType = "car")
                      => feeDisplay'.total = 500 ]_vars

\* A car that stayed 61 minutes is quoted 5.00.
C9_Witness ==
    /\ QuotePending(ABC123)
    /\ feeDisplay.total = 500
    /\ Holder(sampleSlots, ABC123) # <<>>
    /\ Holder(sampleSlots, ABC123)[1].vehicleType = "car"
    /\ now - Holder(sampleSlots, ABC123)[1].entryTime = 61 * MsPerMinute

\* C10: a handleRemoval step for a vehicle whose entryTime is later than the
\* clock read at release ends with an error and quotes no fee.
C10_EarlyExitRejected ==
    [][(handleRemoval /\ Holder(sampleSlots, Clean(exitVehicleNumber)) # <<>>) =>
          LET slot == Holder(sampleSlots, Clean(exitVehicleNumber))[1] IN
          now < slot.entryTime =>
              alert'.type = "error" /\ feeDisplay' = feeDisplay ]_vars

====
